---- MODULE Spec2Model ----
(***************************************************************************)
(* LegalBOT web client: the chat request/response protocol.                *)
(*                                                                         *)
(*   SpecTransport  sendChatQuestion / sendChat      (web/src/api/chat.ts) *)
(*   SpecHistory    getChatHistory                   (web/src/api/chat.ts) *)
(*   SpecSurface    ChatBox: handleSend / handleFeedback (ChatBox.tsx)     *)
(*                                                                         *)
(* An async function is cut at its awaits: the call action runs the code   *)
(* up to the first network request, each "Responds" action takes the       *)
(* outcome of the request in flight and runs the code up to the next       *)
(* request or to the return/throw.                                         *)
(***************************************************************************)
EXTENDS Integers, Sequences, FiniteSets, TLC

VARIABLES
    \* ---- Firebase auth / localStorage, as read by getFirebaseToken ----
    currentUser,     \* auth.currentUser is set
    idTokenOk,       \* user.getIdToken(true) resolves (FALSE: it rejects)
    tokenSeq,        \* number of tokens minted so far by getIdToken(true)
    lsFirebaseUser,  \* localStorage["firebaseUser"]
    lsAuthUser,      \* localStorage["authUser"]
    \* ---- one call of sendChatQuestion / sendChat ----
    tpc,             \* "idle" | "primary" | "fallback" | "done"
    tentry,          \* "sendChatQuestion" | "sendChat"
    tquery,          \* the query argument
    ttoken,          \* what getFirebaseToken returned to this call
    tlog,            \* requests issued by this call, in order
    tprimary,        \* outcome of the POST to /chat/ask
    tfallback,       \* outcome of the POST to /chat/ask/test
    tresult,         \* what the call returned or threw
    tcalls,          \* calls started so far
    \* ---- one call of getChatHistory ----
    hpc,             \* "idle" | "first" | "retry" | "done"
    htoken,          \* token of the first GET
    hfresh,          \* token obtained after a 401/403
    hlog,            \* GETs issued by this call, in order
    hfirst,          \* outcome of the first GET
    hretry,          \* outcome of the retry GET
    hresult,         \* what the call returned or threw
    hcalls,          \* calls started so far
    \* ---- ChatBox component state ----
    query,           \* text of the input box
    loading,         \* a send is being answered
    error,           \* error banner, "null" when absent
    messages,        \* the displayed turns
    showFeedback,    \* chat id the feedback prompt is about, "null" if none
    \* ---- ChatBox calls in flight and what they sent ----
    sends,           \* handleSend invocations awaiting their transport call
    sendSeq,         \* handleSend invocations that reached the transport
    fbOps,           \* handleFeedback invocations awaiting a POST
    slog,            \* POSTs issued by handleFeedback, in order
    alert,           \* the last alert shown, "none" before the first
    \* ---- bookkeeping on prompts ----
    promptSeq,       \* prompts shown so far
    promptId,        \* number of the prompt on display, 0 if none
    resolved,        \* prompt number -> the choice made and the POST outcome
    raised,          \* prompt number -> chat_id of the response that raised it
    \* ---- the browser: clock, localStorage, the mounted ChatBox ----
    variant,         \* which ChatBox source file is the mounted component
    clock,           \* Date.now()
    lsSession,       \* localStorage["session_id"], <<>> when absent
    lsToken,         \* localStorage["token"] is present
    lsUser,          \* localStorage["user"] is present
    mounted,         \* a ChatBox is mounted
    sessionId,       \* its sessionId state, <<>> when none is mounted
    mountReq,        \* the history GET of its mount effect, <<>> if none
    mountLoad,       \* "idle" | "fetching" | "shown" | "kept" | "failed"
    mountData,       \* data array of the history response put on display
    lpc,             \* firebase logout(): "idle" | "signOut"
    cbpc,            \* auth-state callback: "idle" | "refreshing"
    fbLoggedOut,     \* logout() has completed and no sign-in since
    \* ---- the router of App ----
    appVariant,      \* which App source file is the running application
    appLoggedIn,     \* isLoggedIn as computed when App rendered
    routePath,       \* the current location, "none" before the first load
    routeShown,      \* the page component on display
    \* ---- bookkeeping on storage scopes and logouts ----
    scopeIds,        \* session ids handed out since storage was last cleared
    scopeWrites,     \* writes of "session_id" since storage was last cleared
    prevIds,         \* session ids handed out before the last clear
    afterClear,      \* storage was cleared and no ChatBox mounted since
    firstNew,        \* id of the first mount after the last clear, <<>> if none
    logoutDone,      \* a logout handler has completed
    logoutLeft,      \* keys left in storage by the last completed logout
    \* ---- one call of secureFetch ----
    sfpc,            \* "idle" | "waitUser" | "fetching" | "done"
    sfEndpoint,      \* the endpoint argument
    sfTimeoutMs,     \* the deadline chosen for the endpoint, 0 before that
    sfTimer,         \* "unset" | "armed" | "cleared" | "fired"
    sfAborted,       \* controller.abort() has run
    sfResponded,     \* the fetch resolved with a response
    sfResult,        \* what the call returned or threw
    sfCalls,         \* calls started so far
    sfLog,           \* requests issued by this call, in order
    \* ---- the getUserOrWait call of that secureFetch ----
    gpc,             \* "idle" | "waiting" | "settled"
    gTimer,          \* "unset" | "armed" | "cleared" | "fired"
    gListener,       \* "none" | "subscribed" | "unsubscribed"
    gSettles,        \* returns and resolve/reject calls made so far
    gResult,         \* what the call resolved or rejected with
    \* ---- one run of backend/start_backend.sh ----
    shpc,            \* "env" | "wait" | "launched" | "exited"
    shEnv,           \* the required variables that are set and non-empty
    shCounter,       \* COUNTER
    shProbeOk,       \* the last nc probe succeeded
    shExit           \* exit status, -1 while the script or uvicorn runs

tvars ==
    <<tpc, tentry, tquery, ttoken, tlog, tprimary, tfallback, tresult, tcalls>>

hvars ==
    <<hpc, htoken, hfresh, hlog, hfirst, hretry, hresult, hcalls>>

authvars ==
    <<currentUser, idTokenOk, tokenSeq, lsFirebaseUser, lsAuthUser>>

uivars ==
    <<query, loading, error, messages, showFeedback>>

opvars ==
    <<sends, sendSeq, fbOps, slog, alert, promptSeq, promptId, resolved,
      raised>>

sessvars ==
    <<variant, clock, lsSession, lsToken, lsUser, mounted, sessionId,
      mountReq, mountLoad, mountData, lpc, scopeIds, scopeWrites, prevIds,
      afterClear, firstNew, logoutDone, logoutLeft, cbpc, fbLoggedOut,
      appVariant, appLoggedIn, routePath, routeShown>>

routevars ==
    <<appVariant, appLoggedIn, routePath, routeShown>>

startvars ==
    <<shpc, shEnv, shCounter, shProbeOk, shExit>>

guwvars ==
    <<gpc, gTimer, gListener, gSettles, gResult>>

sfvars ==
    <<sfpc, sfEndpoint, sfTimeoutMs, sfTimer, sfAborted, sfResponded,
      sfResult, sfCalls, sfLog, gpc, gTimer, gListener, gSettles, gResult>>

(***************************************************************************)
(* Bounds                                                                  *)
(***************************************************************************)
MaxCalls ==
    2

MaxTokens ==
    3

MaxSends ==
    2

MaxClock ==
    2

(***************************************************************************)
(* Values                                                                  *)
(***************************************************************************)
\* query strings: the empty string and a question
Queries ==
    {"", "q1"}

\* a token: null, one read from localStorage, or one minted by getIdToken
NoToken ==
    [kind |-> "null", n |-> 0]

CachedToken(field) ==
    [kind |-> field, n |-> 0]

LiveToken(n) ==
    [kind |-> "live", n |-> n]

\* content of a localStorage key holding a user blob
StoredKinds ==
    {"absent", "corrupt", "noToken", "sts", "idToken"}

\* HTTP statuses a backend answers with
Statuses ==
    {200, 401, 403, 500}

IsOk(status) ==
    status >= 200 /\ status <= 299

\* response bodies, by raw text
BodyTexts ==
    {"ans", "ansPrompt", "detail", "html"}

\* bodies of the history endpoint
HistoryTexts ==
    {"hist", "histNone", "detail", "html"}

IsJson(text) ==
    text # "html"

\* JSON.parse of a body text
ParseJson(text) ==
    CASE text = "ans" ->
            [success |-> TRUE, chat_id |-> "c1", answer |-> "a1"]
      [] text = "ansPrompt" ->
            [success |-> TRUE, chat_id |-> "c2", answer |-> "a2",
             feedback_prompt |-> TRUE]
      [] text = "detail" ->
            [detail |-> "Not authenticated"]
      [] text = "hist" ->
            [success |-> TRUE, data |-> <<"turn2", "turn1">>]
      [] text = "histNone" ->
            [success |-> TRUE, data |-> <<>>]
      [] OTHER ->
            [none |-> TRUE]

\* outcome of one fetch: a network failure, or a response whose body
\* may or may not be readable
NetErr ==
    [kind |-> "neterr", status |-> 0, text |-> "", readable |-> FALSE]

Outcomes ==
    {NetErr} \cup
    [kind : {"http"}, status : Statuses, text : BodyTexts, readable : {TRUE}]
    \cup
    [kind : {"http"}, status : Statuses, text : {""}, readable : {FALSE}]

HistoryOutcomes ==
    {NetErr} \cup
    [kind : {"http"}, status : Statuses, text : HistoryTexts,
     readable : {TRUE}]
    \cup
    [kind : {"http"}, status : Statuses, text : {""}, readable : {FALSE}]

NoOutcome ==
    [kind |-> "none", status |-> 0, text |-> "", readable |-> FALSE]

\* results of a call
Pending ==
    [kind |-> "pending"]

Returned(v) ==
    [kind |-> "returned", value |-> v]

Threw(e) ==
    [kind |-> "threw", error |-> e]

\* errors
NetworkError ==
    [type |-> "TypeError", status |-> 0, body |-> ""]

BodyError ==
    [type |-> "BodyError", status |-> 0, body |-> ""]

BackendError(status, txt) ==
    [type |-> "Backend", status |-> status, body |-> txt]

RequiresQueryError ==
    [type |-> "RequiresQuery", status |-> 0, body |-> ""]

TokenError ==
    [type |-> "TokenError", status |-> 0, body |-> ""]

NoFreshTokenError ==
    [type |-> "NoFreshToken", status |-> 0, body |-> ""]

RetryFailedError(status) ==
    [type |-> "RetryFailed", status |-> status, body |-> ""]

(***************************************************************************)
(* getFirebaseToken                                                        *)
(***************************************************************************)
\* userData?.stsTokenManager?.accessToken || userData?.idToken || null
TokenOfBlob(kind) ==
    CASE kind = "sts" -> CachedToken("sts")
      [] kind = "idToken" -> CachedToken("idToken")
      [] OTHER -> NoToken

\* JSON.parse(getItem(k1) || "null") || JSON.parse(getItem(k2) || "null"),
\* then the token of the blob; a corrupt blob makes JSON.parse throw
CachedLookup(fu, au) ==
    IF fu = "corrupt" THEN Threw(TokenError)
    ELSE IF fu # "absent" THEN Returned(TokenOfBlob(fu))
    ELSE IF au = "corrupt" THEN Threw(TokenError)
    ELSE Returned(TokenOfBlob(au))

\* the body of the try block
TokenTry(user, ok, n, fu, au) ==
    IF user
    THEN IF ok THEN Returned(LiveToken(n + 1)) ELSE Threw(TokenError)
    ELSE CachedLookup(fu, au)

\* variant: the catch block rethrows
TokenCatch_Rethrow(r) ==
    r

\* the catch block: log and return null
TokenCatch(r) ==
    IF r.kind = "threw" THEN Returned(NoToken) ELSE r

getFirebaseToken(user, ok, n, fu, au) ==
    TokenCatch(TokenTry(user, ok, n, fu, au))

\* getIdToken(true) was called and resolved: a token was minted
Minted(user, ok) ==
    user /\ ok

(***************************************************************************)
(* Requests                                                                *)
(***************************************************************************)
\* headers: Authorization only when a token is present
AuthHeader(token) ==
    IF token.kind # "null"
    THEN [present |-> TRUE, bearer |-> token]
    ELSE [present |-> FALSE, bearer |-> NoToken]

\* the primary POST: the full ChatReq payload, credentials included
AskRequest(qtext, token) ==
    [method |-> "POST", path |-> "/chat/ask", auth |-> AuthHeader(token),
     query |-> qtext, full |-> TRUE]

\* the fallback POST: { query } only, no Authorization header
FallbackRequest(qtext) ==
    [method |-> "POST", path |-> "/chat/ask/test",
     auth |-> AuthHeader(NoToken), query |-> qtext, full |-> FALSE]

CountPath(log, path) ==
    Cardinality({i \in 1..Len(log) : log[i].path = path})

(***************************************************************************)
(* sendChatQuestion                                                        *)
(***************************************************************************)
\* variant: only 403 selects the fallback
IsAuthRejected_Only403(status) ==
    status = 403

\* the status test that selects the fallback
IsAuthRejected(status) ==
    status = 403 \/ status = 401

\* { ...data, success: true, from_fallback: true }
MarkFallback(data) ==
    [success |-> TRUE, from_fallback |-> TRUE] @@ data

\* res.text().catch(() => "<no body>")
TextOrNoBody(o) ==
    IF o.readable THEN o.text ELSE "<no body>"

\* res.json()
JsonOf(o) ==
    IF o.readable /\ IsJson(o.text)
    THEN Returned(ParseJson(o.text))
    ELSE Threw(BodyError)

\* variant: the error message leaves the body out
PrimaryError_NoBody(o) ==
    BackendError(o.status, "")

\* the error thrown for a non-2xx primary response
PrimaryError(o) ==
    BackendError(o.status, TextOrNoBody(o))

\* the catch block of sendChatQuestion: log and rethrow
SendCatch(r) ==
    r

\* what follows the fallback response: its status is not looked at
AfterFallback(o) ==
    IF o.kind = "neterr" THEN Threw(NetworkError)
    ELSE IF JsonOf(o).kind = "threw" THEN JsonOf(o)
    ELSE Returned(MarkFallback(JsonOf(o).value))

\* what follows a primary response that does not select the fallback
AfterPrimary(o) ==
    IF o.kind = "neterr" THEN Threw(NetworkError)
    ELSE IF ~IsOk(o.status) THEN Threw(PrimaryError(o))
    ELSE JsonOf(o)

InitAuth ==
    /\ currentUser \in BOOLEAN
    /\ idTokenOk \in BOOLEAN
    /\ tokenSeq = 0
    /\ lsFirebaseUser \in StoredKinds
    /\ lsAuthUser \in StoredKinds

InitTransport ==
    /\ tpc = "idle"
    /\ tentry = "none"
    /\ tquery = ""
    /\ ttoken = NoToken
    /\ tlog = <<>>
    /\ tprimary = NoOutcome
    /\ tfallback = NoOutcome
    /\ tresult = Pending
    /\ tcalls = 0

InitHistory ==
    /\ hpc = "idle"
    /\ htoken = NoToken
    /\ hfresh = NoToken
    /\ hlog = <<>>
    /\ hfirst = NoOutcome
    /\ hretry = NoOutcome
    /\ hresult = Pending
    /\ hcalls = 0

\* the auth library signs a user in or out, or its token endpoint starts
\* or stops failing
AuthChange ==
    /\ \E u \in BOOLEAN, ok \in BOOLEAN :
          /\ <<u, ok>> # <<currentUser, idTokenOk>>
          /\ currentUser' = u
          /\ idTokenOk' = ok
    /\ UNCHANGED <<tokenSeq, lsFirebaseUser, lsAuthUser>>

\* the body of sendChatQuestion up to the first fetch
StartSendChatQuestion(entry, qtext) ==
    LET tok == getFirebaseToken(currentUser, idTokenOk, tokenSeq,
                                lsFirebaseUser, lsAuthUser)
    IN  /\ tentry' = entry
        /\ tquery' = qtext
        /\ tcalls' = tcalls + 1
        /\ tprimary' = NoOutcome
        /\ tfallback' = NoOutcome
        /\ IF tok.kind = "threw"
           THEN /\ tpc' = "done"
                /\ tresult' = tok
                /\ tlog' = <<>>
                /\ ttoken' = NoToken
                /\ UNCHANGED authvars
           ELSE /\ tpc' = "primary"
                /\ tresult' = Pending
                /\ ttoken' = tok.value
                /\ tlog' = <<AskRequest(qtext, tok.value)>>
                /\ tokenSeq' = IF Minted(currentUser, idTokenOk)
                               THEN tokenSeq + 1 ELSE tokenSeq
                /\ UNCHANGED <<currentUser, idTokenOk, lsFirebaseUser,
                               lsAuthUser>>

\* sendChatQuestion(query, session_id, opts) called directly
SendChatQuestionCall ==
    /\ tpc = "idle"
    /\ tcalls < MaxCalls
    /\ tokenSeq < MaxTokens
    /\ \E qtext \in Queries :
          StartSendChatQuestion("sendChatQuestion", qtext)
    /\ UNCHANGED hvars
    /\ UNCHANGED <<uivars, opvars, sessvars, sfvars, startvars>>

\* arguments of the sendChat alias: a string, or an object (null included,
\* as the object with no field set) whose fields may be missing or empty
Payloads ==
    [isString : {TRUE}, str : Queries, query : {""}, question : {""},
     q : {""}]
    \cup
    [isString : {FALSE}, str : {""}, query : Queries, question : Queries,
     q : Queries]

\* a || b on strings: the empty string and undefined are falsy
OrElse(a, b) ==
    IF a # "" THEN a ELSE b

\* obj.query || obj.question || obj.q || ""
QuestionOrQuery(p) ==
    OrElse(p.query, OrElse(p.question, OrElse(p.q, "")))

\* sendChat(payloadOrQuestion, maybeSessionId)
SendChatCall ==
    /\ tpc = "idle"
    /\ tcalls < MaxCalls
    /\ tokenSeq < MaxTokens
    /\ \E p \in Payloads :
          IF p.isString
          THEN StartSendChatQuestion("sendChat", p.str)
          ELSE IF QuestionOrQuery(p) = ""
          THEN /\ tentry' = "sendChat"
               /\ tquery' = ""
               /\ tcalls' = tcalls + 1
               /\ tpc' = "done"
               /\ tresult' = Threw(RequiresQueryError)
               /\ tlog' = <<>>
               /\ UNCHANGED <<ttoken, tprimary, tfallback>>
               /\ UNCHANGED authvars
          ELSE StartSendChatQuestion("sendChat", QuestionOrQuery(p))
    /\ UNCHANGED hvars
    /\ UNCHANGED <<uivars, opvars, sessvars, sfvars, startvars>>

\* the response to POST /chat/ask arrives
PrimaryResponds ==
    /\ tpc = "primary"
    /\ \E o \in Outcomes :
          /\ tprimary' = o
          /\ IF o.kind = "http" /\ IsAuthRejected(o.status)
             THEN /\ tlog' = Append(tlog, FallbackRequest(tquery))
                  /\ tpc' = "fallback"
                  /\ UNCHANGED tresult
             ELSE /\ tresult' = SendCatch(AfterPrimary(o))
                  /\ tpc' = "done"
                  /\ UNCHANGED tlog
    /\ UNCHANGED <<tentry, tquery, ttoken, tfallback, tcalls>>
    /\ UNCHANGED authvars
    /\ UNCHANGED hvars
    /\ UNCHANGED <<uivars, opvars, sessvars, sfvars, startvars>>

\* the response to POST /chat/ask/test arrives
FallbackResponds ==
    /\ tpc = "fallback"
    /\ \E o \in Outcomes :
          /\ tfallback' = o
          /\ tresult' = SendCatch(AfterFallback(o))
          /\ tpc' = "done"
    /\ UNCHANGED <<tentry, tquery, ttoken, tlog, tprimary, tcalls>>
    /\ UNCHANGED authvars
    /\ UNCHANGED hvars
    /\ UNCHANGED <<uivars, opvars, sessvars, sfvars, startvars>>

\* the caller has taken the result; the next call may start
TransportSettled ==
    /\ tpc = "done"
    /\ tcalls < MaxCalls
    /\ tpc' = "idle"
    /\ tentry' = "none"
    /\ tquery' = ""
    /\ ttoken' = NoToken
    /\ tlog' = <<>>
    /\ tprimary' = NoOutcome
    /\ tfallback' = NoOutcome
    /\ tresult' = Pending
    /\ UNCHANGED tcalls
    /\ UNCHANGED authvars
    /\ UNCHANGED hvars
    /\ UNCHANGED <<uivars, opvars, sessvars, sfvars, startvars>>

(***************************************************************************)
(* getChatHistory                                                          *)
(***************************************************************************)
\* { success: false, data: [] }
EmptyHistory ==
    [success |-> FALSE, data |-> <<>>]

HistoryGet(token) ==
    [method |-> "GET", path |-> "/chat/history", auth |-> AuthHeader(token),
     limit |-> 20]

\* variant: the retry reuses the token of the first GET
RetryGet_StaleToken(token, fresh) ==
    HistoryGet(token)

\* the retry carries the token obtained after the rejection
RetryGet(token, fresh) ==
    HistoryGet(fresh)

\* the status test that selects the retry
IsTokenExpired(status) ==
    status = 401 \/ status = 403

\* variant: the catch block rethrows, as the one of sendChatQuestion does
HistoryCatch_Rethrow(r) ==
    r

\* the catch block of getChatHistory: log and return the empty result
HistoryCatch(r) ==
    IF r.kind = "threw" THEN Returned(EmptyHistory) ELSE r

\* what follows a first response that does not select the retry
AfterFirst(o) ==
    IF o.kind = "neterr" THEN Threw(NetworkError)
    ELSE IF ~IsOk(o.status) THEN Threw(BackendError(o.status, TextOrNoBody(o)))
    ELSE JsonOf(o)

\* what follows the retry response
AfterRetry(o) ==
    IF o.kind = "neterr" THEN Threw(NetworkError)
    ELSE IF ~IsOk(o.status) THEN Threw(RetryFailedError(o.status))
    ELSE JsonOf(o)

\* getChatHistory(session_id) up to the first fetch
GetChatHistoryCall ==
    /\ hpc = "idle"
    /\ hcalls < MaxCalls
    /\ tokenSeq < MaxTokens
    /\ LET tok == getFirebaseToken(currentUser, idTokenOk, tokenSeq,
                                   lsFirebaseUser, lsAuthUser)
       IN  /\ hcalls' = hcalls + 1
           /\ hfirst' = NoOutcome
           /\ hretry' = NoOutcome
           /\ hfresh' = NoToken
           /\ IF tok.kind = "threw"
              THEN /\ hpc' = "done"
                   /\ hresult' = tok
                   /\ hlog' = <<>>
                   /\ htoken' = NoToken
                   /\ UNCHANGED tokenSeq
              ELSE /\ hpc' = "first"
                   /\ hresult' = Pending
                   /\ htoken' = tok.value
                   /\ hlog' = <<HistoryGet(tok.value)>>
                   /\ tokenSeq' = IF Minted(currentUser, idTokenOk)
                                  THEN tokenSeq + 1 ELSE tokenSeq
    /\ UNCHANGED <<currentUser, idTokenOk, lsFirebaseUser, lsAuthUser>>
    /\ UNCHANGED tvars
    /\ UNCHANGED <<uivars, opvars, sessvars, sfvars, startvars>>

\* the response to the first GET arrives
HistoryFirstResponds ==
    /\ hpc = "first"
    /\ \E o \in HistoryOutcomes :
          LET fresh == getFirebaseToken(currentUser, idTokenOk, tokenSeq,
                                        lsFirebaseUser, lsAuthUser)
          IN  /\ hfirst' = o
              /\ IF o.kind = "http" /\ IsTokenExpired(o.status)
                 THEN IF fresh.kind = "threw"
                      THEN /\ hresult' = HistoryCatch(fresh)
                           /\ hpc' = "done"
                           /\ UNCHANGED <<hlog, hfresh, tokenSeq>>
                      ELSE /\ hfresh' = fresh.value
                           /\ tokenSeq' = IF Minted(currentUser, idTokenOk)
                                          THEN tokenSeq + 1 ELSE tokenSeq
                           /\ IF fresh.value.kind = "null"
                              THEN /\ hresult' =
                                        HistoryCatch(Threw(NoFreshTokenError))
                                   /\ hpc' = "done"
                                   /\ UNCHANGED hlog
                              ELSE /\ hlog' = Append(hlog,
                                           RetryGet(htoken, fresh.value))
                                   /\ hpc' = "retry"
                                   /\ UNCHANGED hresult
                 ELSE /\ hresult' = HistoryCatch(AfterFirst(o))
                      /\ hpc' = "done"
                      /\ UNCHANGED <<hlog, hfresh, tokenSeq>>
    /\ UNCHANGED <<htoken, hretry, hcalls>>
    /\ UNCHANGED <<currentUser, idTokenOk, lsFirebaseUser, lsAuthUser>>
    /\ UNCHANGED tvars
    /\ UNCHANGED <<uivars, opvars, sessvars, sfvars, startvars>>

\* the response to the retry GET arrives
HistoryRetryResponds ==
    /\ hpc = "retry"
    /\ \E o \in HistoryOutcomes :
          /\ hretry' = o
          /\ hresult' = HistoryCatch(AfterRetry(o))
          /\ hpc' = "done"
    /\ UNCHANGED <<htoken, hfresh, hlog, hfirst, hcalls>>
    /\ UNCHANGED authvars
    /\ UNCHANGED tvars
    /\ UNCHANGED <<uivars, opvars, sessvars, sfvars, startvars>>

\* the caller has taken the result; the next call may start
HistorySettled ==
    /\ hpc = "done"
    /\ hcalls < MaxCalls
    /\ hpc' = "idle"
    /\ htoken' = NoToken
    /\ hfresh' = NoToken
    /\ hlog' = <<>>
    /\ hfirst' = NoOutcome
    /\ hretry' = NoOutcome
    /\ hresult' = Pending
    /\ UNCHANGED hcalls
    /\ UNCHANGED authvars
    /\ UNCHANGED tvars
    /\ UNCHANGED <<uivars, opvars, sessvars, sfvars, startvars>>

(***************************************************************************)
(* ChatBox: handleSend and handleFeedback                                  *)
(***************************************************************************)
\* texts the user can have in the input box
InputTexts ==
    {"", " ", "q1"}

\* transcripts the speech recogniser delivers
Transcripts ==
    {"", "q1"}

\* String.prototype.trim
Trim(text) ==
    IF text = " " THEN "" ELSE text

\* what the transport call of handleSend resolves with
SendBodies ==
    {"ans", "ansPrompt", "promptNoId"}

SendResponse(text) ==
    IF text = "promptNoId"
    THEN [success |-> TRUE, answer |-> "a3", feedback_prompt |-> TRUE]
    ELSE ParseJson(text)

\* res.f || dflt on a response object
FieldOr(data, f, dflt) ==
    IF f \in DOMAIN data THEN data[f] ELSE dflt

UserTurn(question) ==
    [role |-> "user", text |-> question, chatId |-> "undefined"]

BotTurn(res) ==
    [role |-> "bot",
     text |-> FieldOr(res, "answer", "No answer received."),
     chatId |-> FieldOr(res, "chat_id", "undefined")]

\* variant: the prompt is always keyed by the placeholder
PromptOf_AlwaysLatest(res, current) ==
    IF FieldOr(res, "feedback_prompt", FALSE)
    THEN "latest"
    ELSE current

\* variant: a response without feedback_prompt clears the prompt
PromptOf_ClearsWhenAbsent(res, current) ==
    IF FieldOr(res, "feedback_prompt", FALSE)
    THEN FieldOr(res, "chat_id", "latest")
    ELSE "null"

\* if (res.feedback_prompt) setShowFeedback(res.chat_id || "latest")
PromptOf(res, current) ==
    IF FieldOr(res, "feedback_prompt", FALSE)
    THEN FieldOr(res, "chat_id", "latest")
    ELSE current

\* variant: the prompt is left on display when an option is chosen
AfterChoice_Keep(current) ==
    current

\* handleFeedback: setShowFeedback(null) before the POST
AfterChoice(current) ==
    "null"

\* variant: the ticket POST is issued whether or not the feedback POST failed
IssuesTicket_IgnoresFailure(ok, option) ==
    option = "need_assistance"

\* variant: the ticket POST is issued for either option
IssuesTicket_AnyOption(ok, option) ==
    ok

\* variant: the catch block puts the prompt back for a retry
PromptAfterFailure_Restore(current, chatId) ==
    chatId

\* handleFeedback's catch block: an alert, the prompt is not touched
PromptAfterFailure(current, chatId) ==
    current

\* variant: the catch block of handleSend empties the input box
QueryAfterReject_Clear(current) ==
    ""

\* handleSend's catch block: the banner is set, the input is not touched
QueryAfterReject(current) ==
    current

\* variant: setLoading(false) is left out of the finally block
LoadingAfterSettle_Kept(current) ==
    current

\* the finally block of handleSend: setLoading(false)
LoadingAfterSettle(current) ==
    FALSE

\* handleFeedback: the ticket POST follows a feedback POST that resolved,
\* for the need_assistance option only
IssuesTicket(ok, option) ==
    ok /\ option = "need_assistance"

FeedbackPost(chatId, option, p) ==
    [path |-> "/chat/feedback", chat_id |-> chatId,
     feedback_option |-> option, prompt |-> p]

TicketPost(chatId, p) ==
    [path |-> "/tickets/create", chat_id |-> chatId,
     feedback_option |-> "none", prompt |-> p]

InitSurface ==
    /\ query = ""
    /\ loading = FALSE
    /\ error = "null"
    /\ messages = <<>>
    /\ showFeedback = "null"
    /\ sends = {}
    /\ sendSeq = 0
    /\ fbOps = {}
    /\ slog = <<>>
    /\ alert = "none"
    /\ promptSeq = 0
    /\ promptId = 0
    /\ resolved = <<>>
    /\ raised = <<>>

\* the textarea's onChange; the textarea is disabled while loading
SetQuery ==
    /\ ~loading
    /\ \E text \in InputTexts :
          /\ text # query
          /\ query' = text
    /\ UNCHANGED <<loading, error, messages, showFeedback>>
    /\ UNCHANGED opvars

\* handleSend past its early return, up to the transport call
StartSend(question) ==
    /\ sendSeq < MaxSends
    /\ loading' = TRUE
    /\ error' = "null"
    /\ showFeedback' = "null"
    /\ promptId' = 0
    /\ messages' = Append(messages, UserTurn(question))
    /\ sendSeq' = sendSeq + 1
    /\ sends' = sends \cup {[id |-> sendSeq + 1, question |-> question,
                              turn |-> Len(messages) + 1]}
    /\ UNCHANGED <<fbOps, slog, alert, promptSeq, resolved, raised>>

\* the Send button: handleSend(); the button is disabled while loading
HandleSendTyped ==
    /\ ~loading
    /\ Trim(query) # ""
    /\ StartSend(Trim(query))
    /\ UNCHANGED query

\* recog.onresult: setQuery(transcript); handleSend(transcript), with the
\* handleSend of the first render, whose query is the empty string
HandleSendVoice ==
    \E transcript \in Transcripts :
        /\ query' = transcript
        /\ IF transcript = ""
           THEN /\ query # ""
                /\ UNCHANGED <<loading, error, messages, showFeedback>>
                /\ UNCHANGED opvars
           ELSE StartSend(transcript)

\* the transport call of a handleSend resolves: the rest of the try block
\* and the finally block
SendResolves ==
    \E s \in sends, text \in SendBodies :
        LET res == SendResponse(text)
            next == PromptOf(res, showFeedback)
            prompted == FieldOr(res, "feedback_prompt", FALSE)
        IN  /\ sends' = sends \ {s}
            /\ messages' = Append(messages, BotTurn(res))
            /\ showFeedback' = next
            /\ promptSeq' = IF prompted THEN promptSeq + 1 ELSE promptSeq
            /\ promptId' = IF prompted THEN promptSeq + 1
                           ELSE IF next = "null" THEN 0 ELSE promptId
            /\ raised' = IF prompted
                          THEN [p \in (DOMAIN raised) \cup {promptSeq + 1} |->
                                  IF p = promptSeq + 1
                                  THEN FieldOr(res, "chat_id", "undefined")
                                  ELSE raised[p]]
                          ELSE raised
            /\ query' = ""
            /\ loading' = LoadingAfterSettle(loading)
            /\ UNCHANGED <<error, sendSeq, fbOps, slog, alert, resolved>>

\* the transport call of a handleSend rejects: the catch and finally blocks
SendRejects ==
    \E s \in sends :
        /\ sends' = sends \ {s}
        /\ error' = "Failed to fetch response from LegalBOT API."
        /\ query' = QueryAfterReject(query)
        /\ loading' = LoadingAfterSettle(loading)
        /\ UNCHANGED <<messages, showFeedback>>
        /\ UNCHANGED <<sendSeq, fbOps, slog, alert, promptSeq, promptId,
                       resolved, raised>>

\* a feedback button: handleFeedback(option) up to the feedback POST
HandleFeedback ==
    /\ showFeedback # "null"
    /\ \E option \in {"satisfied", "need_assistance"} :
          /\ showFeedback' = AfterChoice(showFeedback)
          /\ promptId' = IF AfterChoice(showFeedback) = "null"
                         THEN 0 ELSE promptId
          /\ slog' = Append(slog, FeedbackPost(showFeedback, option, promptId))
          /\ fbOps' = fbOps \cup {[prompt |-> promptId,
                                   chat_id |-> showFeedback,
                                   option |-> option,
                                   stage |-> "feedback"]}
          /\ resolved' = [p \in (DOMAIN resolved) \cup {promptId} |->
                            IF p = promptId
                            THEN [option |-> option, feedback |-> "pending"]
                            ELSE resolved[p]]
    /\ UNCHANGED <<query, loading, error, messages>>
    /\ UNCHANGED <<sends, sendSeq, alert, promptSeq, raised>>

\* the feedback POST settles: the ticket POST or an alert
FeedbackSettles ==
    \E op \in fbOps, ok \in BOOLEAN :
        /\ op.stage = "feedback"
        /\ resolved' = [resolved EXCEPT ![op.prompt].feedback =
                            IF ok THEN "ok" ELSE "failed"]
        /\ IF IssuesTicket(ok, op.option)
           THEN /\ slog' = Append(slog, TicketPost(op.chat_id, op.prompt))
                /\ fbOps' = (fbOps \ {op}) \cup
                                {[op EXCEPT !.stage = "ticket"]}
                /\ UNCHANGED alert
           ELSE /\ fbOps' = fbOps \ {op}
                /\ alert' = IF ok THEN "thanks" ELSE "failed"
                /\ UNCHANGED slog
        /\ LET shown == IF ok THEN showFeedback
                        ELSE PromptAfterFailure(showFeedback, op.chat_id)
           IN  /\ showFeedback' = shown
               /\ promptId' = IF shown = showFeedback THEN promptId
                               ELSE op.prompt
        /\ UNCHANGED <<query, loading, error, messages>>
        /\ UNCHANGED <<sends, sendSeq, promptSeq, raised>>

\* the ticket POST settles: an alert
TicketSettles ==
    \E op \in fbOps, ok \in BOOLEAN :
        /\ op.stage = "ticket"
        /\ fbOps' = fbOps \ {op}
        /\ alert' = IF ok THEN "ticket" ELSE "failed"
        /\ LET shown == IF ok THEN showFeedback
                        ELSE PromptAfterFailure(showFeedback, op.chat_id)
           IN  /\ showFeedback' = shown
               /\ promptId' = IF shown = showFeedback THEN promptId
                               ELSE op.prompt
        /\ UNCHANGED <<query, loading, error, messages>>
        /\ UNCHANGED <<sends, sendSeq, slog, promptSeq, resolved, raised>>

(***************************************************************************)
(* The ChatBox session: session id, history load on mount, logout          *)
(*   legalbot/web/src/components/ChatBox.tsx and the ChatBox of            *)
(*   unnamed/part_008 (the same component, with a persisted session id)    *)
(***************************************************************************)
(***************************************************************************)
(* The router of App: the guarded App kept in api/secureApi.ts and the     *)
(* App of unnamed/part_005                                                 *)
(***************************************************************************)
AppVariants ==
    {"secureApi.ts", "part_005"}

Paths ==
    {"/", "/login", "/google/callback", "/dashboard", "/chat"}

Page(at, component) ==
    [path |-> at, shown |-> component]

\* <Routes> of App with isLoggedIn = logged: the location and the page
\* component on display after the <Navigate> elements have acted
Resolve(v, to, logged) ==
    IF v = "secureApi.ts"
    THEN CASE to \in {"/", "/login"} ->
                 IF logged THEN Page("/dashboard", "DashboardLayout")
                 ELSE Page(to, "Login")
           [] to = "/google/callback" -> Page(to, "GoogleCallback")
           [] to = "/dashboard" ->
                 IF logged THEN Page(to, "DashboardLayout")
                 ELSE Page("/login", "Login")
           [] to = "/chat" ->
                 IF logged THEN Page(to, "ChatPage")
                 ELSE Page("/login", "Login")
    ELSE CASE to = "/" ->
                 IF logged THEN Page("/dashboard", "DashboardLayout")
                 ELSE Page(to, "Login")
           [] to = "/login" -> Page(to, "Login")
           [] to = "/google/callback" -> Page(to, "GoogleCallback")
           [] to = "/dashboard" -> Page(to, "DashboardLayout")
           [] to = "/chat" -> Page(to, "ChatPage")

InitRoutes(v) ==
    /\ appVariant = v
    /\ appLoggedIn = FALSE
    /\ routePath = "none"
    /\ routeShown = "none"

Variants ==
    {"ChatBox.tsx", "part_008"}

\* `sess-${Date.now()}`
SessId(millis) ==
    <<"sess-", millis>>

NoId ==
    <<>>

\* the useState initializer of sessionId: what it returns and what it
\* leaves in localStorage["session_id"]
SessionInitializer(v, stored, now) ==
    IF v = "part_008"
    THEN IF stored # NoId
         THEN [id |-> stored, stored |-> stored, wrote |-> FALSE]
         ELSE [id |-> SessId(now), stored |-> SessId(now), wrote |-> TRUE]
    ELSE [id |-> SessId(now), stored |-> stored, wrote |-> FALSE]

NoFilter ==
    <<>>

HistoryLimit ==
    20

\* the URL of the history GET issued by the mount effect
MountRequest(v, id) ==
    IF v = "part_008"
    THEN <<[path |-> "/chat/history", session_id |-> id,
            limit |-> HistoryLimit]>>
    ELSE <<[path |-> "/chat/history", session_id |-> NoFilter,
            limit |-> HistoryLimit]>>

\* history items as the backend returns them, newest first
OlderItem ==
    [question |-> "q1", answer |-> "a1"]

NewerItem ==
    [question |-> "q2", answer |-> "a2"]

HistoryData ==
    {<<>>, <<OlderItem>>, <<NewerItem, OlderItem>>}

\* what the history GET can come back with
MountOutcomes ==
    {[kind |-> "neterr", ok |-> FALSE, json |-> FALSE, success |-> FALSE,
      hasData |-> FALSE, data |-> <<>>],
     [kind |-> "http", ok |-> FALSE, json |-> TRUE, success |-> FALSE,
      hasData |-> FALSE, data |-> <<>>],
     [kind |-> "http", ok |-> TRUE, json |-> FALSE, success |-> FALSE,
      hasData |-> FALSE, data |-> <<>>],
     [kind |-> "http", ok |-> TRUE, json |-> TRUE, success |-> TRUE,
      hasData |-> FALSE, data |-> <<>>]} \cup
    [kind : {"http"}, ok : {TRUE}, json : {TRUE}, success : {TRUE},
     hasData : {TRUE}, data : HistoryData]

HistoryUserTurn(item) ==
    [role |-> "user", text |-> item.question, chatId |-> "undefined"]

HistoryBotTurn(item) ==
    [role |-> "bot", text |-> item.answer, chatId |-> "undefined"]

\* data.flatMap(item => [user turn, bot turn])
RECURSIVE FlatMapTurns(_)
FlatMapTurns(data) ==
    IF data = <<>> THEN <<>>
    ELSE <<HistoryUserTurn(Head(data)), HistoryBotTurn(Head(data))>>
         \o FlatMapTurns(Tail(data))

\* Array.prototype.reverse
Reverse(seq) ==
    [i \in 1..Len(seq) |-> seq[Len(seq) + 1 - i]]

\* what loadHistory passes to setMessages
Formatted(v, data) ==
    IF v = "part_008"
    THEN Reverse(FlatMapTurns(data))
    ELSE FlatMapTurns(data)

\* the try block of loadHistory: "shown" when setMessages ran, "kept" when
\* the if was not taken, "failed" when it threw into the catch block
LoadVerdict(v, out) ==
    IF out.kind = "neterr" THEN "failed"
    ELSE IF v = "part_008"
    THEN IF ~out.ok \/ ~out.json THEN "failed"
         ELSE IF out.success /\ out.hasData THEN "shown"
         ELSE "kept"
    ELSE IF ~out.json THEN "failed"
         ELSE IF ~out.success THEN "kept"
         ELSE IF ~out.hasData THEN "failed"
         ELSE IF Len(out.data) > 0 THEN "shown"
         ELSE "kept"

KeysPresent(session, token, user) ==
    {k \in {"session_id", "token", "user"} :
        \/ k = "session_id" /\ session # NoId
        \/ k = "token" /\ token
        \/ k = "user" /\ user}

InitSessionWith(v, app) ==
    /\ variant = v
    /\ clock = 1
    /\ lsSession = NoId
    /\ lsToken = FALSE
    /\ lsUser = FALSE
    /\ mounted = FALSE
    /\ sessionId = NoId
    /\ mountReq = <<>>
    /\ mountLoad = "idle"
    /\ mountData = <<>>
    /\ lpc = "idle"
    /\ scopeIds = {}
    /\ scopeWrites = 0
    /\ prevIds = {}
    /\ afterClear = FALSE
    /\ firstNew = NoId
    /\ logoutDone = FALSE
    /\ logoutLeft = {}
    /\ cbpc = "idle"
    /\ fbLoggedOut = FALSE
    /\ InitRoutes(app)

InitSession(v) ==
    InitSessionWith(v, "secureApi.ts")

\* everything a session step leaves alone outside the session variables
sessframe ==
    <<authvars, tvars, hvars, opvars, sfvars, startvars, query, loading,
      showFeedback>>

\* the same without the auth variables
sessrest ==
    <<tvars, hvars, opvars, sfvars, startvars, query, loading,
      showFeedback>>

\* time passes
Tick ==
    /\ UNCHANGED routevars
    /\ clock < MaxClock
    /\ clock' = clock + 1
    /\ UNCHANGED <<variant, lsSession, lsToken, lsUser, mounted, sessionId,
                   mountReq, mountLoad, mountData, lpc, scopeIds,
                   scopeWrites, prevIds, afterClear, firstNew, logoutDone,
                   logoutLeft>>
    /\ UNCHANGED <<messages, error>>
    /\ UNCHANGED <<cbpc, fbLoggedOut>>
    /\ UNCHANGED sessframe

\* the first render of a ChatBox and its mount effect
Mount ==
    /\ UNCHANGED routevars
    /\ ~mounted
    /\ LET r == SessionInitializer(variant, lsSession, clock)
       IN  /\ sessionId' = r.id
           /\ lsSession' = r.stored
           /\ scopeWrites' = IF r.wrote THEN scopeWrites + 1 ELSE scopeWrites
           /\ scopeIds' = scopeIds \cup {r.id}
           /\ firstNew' = IF afterClear THEN r.id ELSE firstNew
           /\ mountReq' = MountRequest(variant, r.id)
    /\ afterClear' = FALSE
    /\ mounted' = TRUE
    /\ mountLoad' = "fetching"
    /\ mountData' = <<>>
    /\ messages' = <<>>
    /\ error' = "null"
    /\ UNCHANGED <<variant, clock, lsToken, lsUser, lpc, prevIds, logoutDone,
                   logoutLeft>>
    /\ UNCHANGED <<cbpc, fbLoggedOut>>
    /\ UNCHANGED sessframe

\* the history GET of the mount effect settles
MountHistoryResponds ==
    /\ UNCHANGED routevars
    /\ mounted
    /\ mountLoad = "fetching"
    /\ \E out \in MountOutcomes :
          LET verdict == LoadVerdict(variant, out)
          IN  /\ mountLoad' = verdict
              /\ mountData' = IF verdict = "shown" THEN out.data ELSE <<>>
              /\ messages' = IF verdict = "shown"
                             THEN Formatted(variant, out.data)
                             ELSE messages
              /\ error' = IF verdict = "failed"
                          THEN "Unable to load chat history."
                          ELSE error
    /\ UNCHANGED <<variant, clock, lsSession, lsToken, lsUser, mounted,
                   sessionId, mountReq, lpc, scopeIds, scopeWrites, prevIds,
                   afterClear, firstNew, logoutDone, logoutLeft>>
    /\ UNCHANGED <<cbpc, fbLoggedOut>>
    /\ UNCHANGED sessframe

\* the component goes away (route change, page reload)
Unmount ==
    /\ UNCHANGED routevars
    /\ mounted
    /\ mounted' = FALSE
    /\ sessionId' = NoId
    /\ mountReq' = <<>>
    /\ mountLoad' = "idle"
    /\ mountData' = <<>>
    /\ messages' = <<>>
    /\ error' = "null"
    /\ UNCHANGED <<variant, clock, lsSession, lsToken, lsUser, lpc, scopeIds,
                   scopeWrites, prevIds, afterClear, firstNew, logoutDone,
                   logoutLeft>>
    /\ UNCHANGED <<cbpc, fbLoggedOut>>
    /\ UNCHANGED sessframe

\* the user clears the site's storage
ClearStorage ==
    /\ UNCHANGED routevars
    /\ KeysPresent(lsSession, lsToken, lsUser) # {} \/ scopeIds # {}
    /\ lsSession' = NoId
    /\ lsToken' = FALSE
    /\ lsUser' = FALSE
    /\ prevIds' = scopeIds
    /\ scopeIds' = {}
    /\ scopeWrites' = 0
    /\ afterClear' = TRUE
    /\ firstNew' = NoId
    /\ UNCHANGED <<variant, clock, mounted, sessionId, mountReq, mountLoad,
                   mountData, lpc, logoutDone, logoutLeft>>
    /\ UNCHANGED <<messages, error>>
    /\ UNCHANGED <<cbpc, fbLoggedOut>>
    /\ UNCHANGED sessframe

\* signInWithGoogle, after the popup and getIdToken have resolved
SignIn ==
    /\ UNCHANGED routevars
    /\ ~lsToken \/ ~lsUser
    /\ lsToken' = TRUE
    /\ lsUser' = TRUE
    /\ currentUser' = TRUE
    /\ cbpc' = "refreshing"
    /\ fbLoggedOut' = FALSE
    /\ UNCHANGED <<variant, clock, lsSession, mounted, sessionId, mountReq,
                   mountLoad, mountData, lpc, scopeIds, scopeWrites, prevIds,
                   afterClear, firstNew, logoutDone, logoutLeft>>
    /\ UNCHANGED <<messages, error>>
    /\ UNCHANGED <<idTokenOk, tokenSeq, lsFirebaseUser, lsAuthUser>>
    /\ UNCHANGED sessrest

\* the auth-state callback's getIdToken(true) resolved: it stores the
\* token and the user
AuthCallbackStores ==
    /\ UNCHANGED routevars
    /\ cbpc = "refreshing"
    /\ cbpc' = "idle"
    /\ lsToken' = TRUE
    /\ lsUser' = TRUE
    /\ UNCHANGED <<variant, clock, lsSession, mounted, sessionId, mountReq,
                   mountLoad, mountData, lpc, scopeIds, scopeWrites, prevIds,
                   afterClear, firstNew, logoutDone, logoutLeft, fbLoggedOut>>
    /\ UNCHANGED <<messages, error>>
    /\ UNCHANGED sessframe

\* the auth-state callback's getIdToken(true) rejected: nothing is stored
AuthCallbackRefreshFails ==
    /\ UNCHANGED routevars
    /\ cbpc = "refreshing"
    /\ cbpc' = "idle"
    /\ UNCHANGED <<variant, clock, lsSession, lsToken, lsUser, mounted,
                   sessionId, mountReq, mountLoad, mountData, lpc, scopeIds,
                   scopeWrites, prevIds, afterClear, firstNew, logoutDone,
                   logoutLeft, fbLoggedOut>>
    /\ UNCHANGED <<messages, error>>
    /\ UNCHANGED sessframe

\* handleLogout of the dashboard: the two removals, then the navigation to
\* /login, which takes the page's components away
HandleLogout ==
    /\ UNCHANGED routevars
    /\ lsToken /\ lsUser
    /\ lpc = "idle"
    /\ lsToken' = FALSE
    /\ lsUser' = FALSE
    /\ logoutDone' = TRUE
    /\ logoutLeft' = KeysPresent(lsSession, FALSE, FALSE)
    /\ mounted' = FALSE
    /\ sessionId' = NoId
    /\ mountReq' = <<>>
    /\ mountLoad' = "idle"
    /\ mountData' = <<>>
    /\ messages' = <<>>
    /\ error' = "null"
    /\ UNCHANGED <<variant, clock, lsSession, lpc, scopeIds, scopeWrites,
                   prevIds, afterClear, firstNew>>
    /\ UNCHANGED <<cbpc, fbLoggedOut>>
    /\ UNCHANGED sessframe

\* logout() of firebase.ts up to its await signOut(auth)
FirebaseLogoutCall ==
    /\ UNCHANGED routevars
    /\ lpc = "idle"
    /\ lsToken /\ lsUser
    /\ lpc' = "signOut"
    /\ UNCHANGED <<variant, clock, lsSession, lsToken, lsUser, mounted,
                   sessionId, mountReq, mountLoad, mountData, scopeIds,
                   scopeWrites, prevIds, afterClear, firstNew, logoutDone,
                   logoutLeft>>
    /\ UNCHANGED <<messages, error>>
    /\ UNCHANGED <<cbpc, fbLoggedOut>>
    /\ UNCHANGED sessframe

\* signOut resolved: the auth-state callback runs with no user and
\* logout() goes on, each with the two removals; a callback that is still
\* awaiting its token is not cancelled
SignOutResolves ==
    /\ UNCHANGED routevars
    /\ lpc = "signOut"
    /\ lpc' = "idle"
    /\ currentUser' = FALSE
    /\ lsToken' = FALSE
    /\ lsUser' = FALSE
    /\ logoutDone' = TRUE
    /\ logoutLeft' = KeysPresent(lsSession, FALSE, FALSE)
    /\ fbLoggedOut' = TRUE
    /\ UNCHANGED <<variant, clock, lsSession, mounted, sessionId, mountReq,
                   mountLoad, mountData, scopeIds, scopeWrites, prevIds,
                   afterClear, firstNew, cbpc>>
    /\ UNCHANGED <<messages, error>>
    /\ UNCHANGED <<idTokenOk, tokenSeq, lsFirebaseUser, lsAuthUser>>
    /\ UNCHANGED sessrest

\* signOut rejected: logout() throws before any removal
SignOutRejects ==
    /\ UNCHANGED routevars
    /\ lpc = "signOut"
    /\ lpc' = "idle"
    /\ UNCHANGED <<variant, clock, lsSession, lsToken, lsUser, mounted,
                   sessionId, mountReq, mountLoad, mountData, scopeIds,
                   scopeWrites, prevIds, afterClear, firstNew, logoutDone,
                   logoutLeft>>
    /\ UNCHANGED <<messages, error>>
    /\ UNCHANGED <<cbpc, fbLoggedOut>>
    /\ UNCHANGED sessframe

\* everything a router step leaves alone in the session variables
routeframe ==
    <<variant, clock, lsSession, mounted, sessionId, mountReq, mountLoad,
      mountData, lpc, scopeIds, scopeWrites, prevIds, afterClear, firstNew,
      cbpc, fbLoggedOut>>

\* the page is loaded at a location: App renders and reads the token
AppLoad ==
    /\ \E to \in Paths :
          LET page == Resolve(appVariant, to, lsToken)
          IN  /\ routePath' = page.path
              /\ routeShown' = page.shown
    /\ appLoggedIn' = lsToken
    /\ UNCHANGED <<appVariant, lsToken, lsUser, logoutDone, logoutLeft>>
    /\ UNCHANGED routeframe
    /\ UNCHANGED <<authvars, tvars, hvars, uivars, opvars, sfvars, startvars>>

\* the effect of GoogleCallback: with a jwt parameter the token and user
\* are stored and the router navigates to /dashboard, else to /login; App
\* is not rendered again
GoogleCallbackEffect ==
    /\ routeShown = "GoogleCallback"
    /\ \E jwt \in BOOLEAN :
          LET page == Resolve(appVariant,
                              IF jwt THEN "/dashboard" ELSE "/login",
                              appLoggedIn)
          IN  /\ lsToken' = IF jwt THEN TRUE ELSE lsToken
              /\ lsUser' = IF jwt THEN TRUE ELSE lsUser
              /\ routePath' = page.path
              /\ routeShown' = page.shown
    /\ UNCHANGED <<appVariant, appLoggedIn, logoutDone, logoutLeft>>
    /\ UNCHANGED routeframe
    /\ UNCHANGED <<authvars, tvars, hvars, uivars, opvars, sfvars, startvars>>

\* handleLogout of DashboardLayout: the two removals, then a page load at
\* /login
LayoutLogout ==
    /\ routeShown = "DashboardLayout"
    /\ lsToken' = FALSE
    /\ lsUser' = FALSE
    /\ logoutDone' = TRUE
    /\ logoutLeft' = KeysPresent(lsSession, FALSE, FALSE)
    /\ appLoggedIn' = FALSE
    /\ routePath' = Resolve(appVariant, "/login", FALSE).path
    /\ routeShown' = Resolve(appVariant, "/login", FALSE).shown
    /\ UNCHANGED appVariant
    /\ UNCHANGED routeframe
    /\ UNCHANGED <<authvars, tvars, hvars, uivars, opvars, sfvars, startvars>>

(***************************************************************************)
(* legalbot/backend/start_backend.sh                                       *)
(***************************************************************************)
REQUIRED_VARS ==
    {"POSTGRES_HOST", "POSTGRES_PORT", "POSTGRES_DB", "POSTGRES_USER",
     "POSTGRES_PASSWORD"}

MAX_RETRIES ==
    30

\* [[ -z "${!var}" ]] for some required variable
MissingVar(env) ==
    REQUIRED_VARS \ env # {}

\* variant: the retry limit is never reached
RetriesExhausted_Never(counter) ==
    FALSE

\* [ "$COUNTER" -ge "$MAX_RETRIES" ]
RetriesExhausted(counter) ==
    counter >= MAX_RETRIES

\* the script starts with the environment env and COUNTER=0
InitStartupWith(env) ==
    /\ shpc = "env"
    /\ shEnv = env
    /\ shCounter = 0
    /\ shProbeOk = FALSE
    /\ shExit = -1

InitStartup ==
    InitStartupWith(REQUIRED_VARS)

\* the loop over REQUIRED_VARS
CheckEnv ==
    /\ shpc = "env"
    /\ IF MissingVar(shEnv)
       THEN /\ shpc' = "exited"
            /\ shExit' = 1
       ELSE /\ shpc' = "wait"
            /\ UNCHANGED shExit
    /\ UNCHANGED <<shEnv, shCounter, shProbeOk>>
    /\ UNCHANGED <<authvars, tvars, hvars, uivars, opvars, sessvars, sfvars>>

\* one nc probe fails: sleep, count, give up at the limit
ProbeFails ==
    /\ shpc = "wait"
    /\ shCounter' = shCounter + 1
    /\ IF RetriesExhausted(shCounter + 1)
       THEN /\ shpc' = "exited"
            /\ shExit' = 1
       ELSE UNCHANGED <<shpc, shExit>>
    /\ UNCHANGED <<shEnv, shProbeOk>>
    /\ UNCHANGED <<authvars, tvars, hvars, uivars, opvars, sessvars, sfvars>>

\* one nc probe succeeds: the loop ends and uvicorn is exec'ed
ProbeSucceeds ==
    /\ shpc = "wait"
    /\ shProbeOk' = TRUE
    /\ shpc' = "launched"
    /\ UNCHANGED <<shEnv, shCounter, shExit>>
    /\ UNCHANGED <<authvars, tvars, hvars, uivars, opvars, sessvars, sfvars>>

(***************************************************************************)
(* secureFetch (legalbot/web/src/api/secureApi.ts)                         *)
(***************************************************************************)
Endpoints ==
    {"chat/ask", "chat/feedback"}

\* endpoint.includes("chat/ask")
IsChatAsk(ep) ==
    ep = "chat/ask"

ChatAskTimeoutMs ==
    60000

DefaultTimeoutMs ==
    10000

\* const timeoutMs = endpoint.includes("chat/ask") ? 60000 : 10000
TimeoutFor(ep) ==
    IF IsChatAsk(ep) THEN ChatAskTimeoutMs ELSE DefaultTimeoutMs

\* errors of secureFetch, by the text their message starts with
SfBackendError(status) ==
    [type |-> "Backend error", status |-> status, body |-> ""]

SfTimeoutError ==
    [type |-> "Backend timeout", status |-> 0, body |-> ""]

AbortError ==
    [type |-> "AbortError", status |-> 0, body |-> ""]

NoUserError ==
    [type |-> "No Firebase user", status |-> 0, body |-> ""]

GuwTimeoutError ==
    [type |-> "Firebase user not detected within timeout", status |-> 0,
     body |-> ""]

ListenerError ==
    [type |-> "auth listener error", status |-> 0, body |-> ""]

\* resolve / reject of the promise of getUserOrWait: the first call
\* settles it, later calls have no effect
Settle(current, outcome) ==
    IF current = Pending THEN outcome ELSE current

\* clearTimeout(timer) in the callbacks of getUserOrWait
ClearGuwTimer(timer) ==
    IF timer = "armed" THEN "cleared" ELSE timer

\* unsubscribe() in the callbacks of getUserOrWait
Unsubscribe(listener) ==
    "unsubscribed"

\* variant: the timer callback rejects without unsubscribing
UnsubscribeOnTimeout_Forgotten(listener) ==
    listener

\* unsubscribe() in the timer callback of getUserOrWait
UnsubscribeOnTimeout(listener) ==
    "unsubscribed"

\* variant: secureFetch goes on whatever getUserOrWait gave
UserObtained_Always(r) ==
    TRUE

\* const user = await getUserOrWait() went through
UserObtained(r) ==
    r.kind = "returned"

\* the POST of secureFetch
SecureRequest(ep) ==
    [method |-> "POST", path |-> ep, auth |-> "Bearer"]

\* the catch block of secureFetch
SecureFetchCatch(r) ==
    IF r.kind = "threw" /\ r.error = AbortError
    THEN Threw(SfTimeoutError)
    ELSE r

\* variant: the timer is left running after the response
ClearTimer_Forgotten(timer) ==
    timer

\* clearTimeout(timeout)
ClearTimer(timer) ==
    IF timer = "armed" THEN "cleared" ELSE timer

\* the statements after the fetch resolved with a response
AfterResponse(out) ==
    IF ~IsOk(out.status)
    THEN IF out.readable THEN Threw(SfBackendError(out.status))
         ELSE Threw(BodyError)
    ELSE IF out.readable /\ IsJson(out.text) THEN Returned(ParseJson(out.text))
    ELSE Threw(BodyError)

SfResponses ==
    [kind : {"http"}, status : Statuses, text : {"ans", "html"},
     readable : BOOLEAN]

InitSecureFetch ==
    /\ sfpc = "idle"
    /\ sfEndpoint = "none"
    /\ sfTimeoutMs = 0
    /\ sfTimer = "unset"
    /\ sfAborted = FALSE
    /\ sfResponded = FALSE
    /\ sfResult = Pending
    /\ sfCalls = 0
    /\ sfLog = <<>>
    /\ gpc = "idle"
    /\ gTimer = "unset"
    /\ gListener = "none"
    /\ gSettles = 0
    /\ gResult = Pending

\* secureFetch up to its first await: getUserOrWait returns the current
\* user, or arms its timer and subscribes its listener
SecureFetchCall ==
    /\ sfpc \in {"idle", "done"}
    /\ sfCalls < MaxCalls
    /\ \E ep \in Endpoints : sfEndpoint' = ep
    /\ sfpc' = "waitUser"
    /\ sfTimeoutMs' = 0
    /\ sfTimer' = "unset"
    /\ sfAborted' = FALSE
    /\ sfResponded' = FALSE
    /\ sfResult' = Pending
    /\ sfCalls' = sfCalls + 1
    /\ sfLog' = <<>>
    /\ IF currentUser
       THEN /\ gpc' = "settled"
            /\ gResult' = Returned("user")
            /\ gSettles' = 1
            /\ gTimer' = "unset"
            /\ gListener' = "none"
       ELSE /\ gpc' = "waiting"
            /\ gResult' = Pending
            /\ gSettles' = 0
            /\ gTimer' = "armed"
            /\ gListener' = "subscribed"
    /\ UNCHANGED <<authvars, tvars, hvars, uivars, opvars, sessvars,
                 startvars>>

\* the auth-state listener of getUserOrWait is called with the auth state
GuwAuthCallback ==
    /\ gListener = "subscribed"
    /\ gTimer' = ClearGuwTimer(gTimer)
    /\ gListener' = Unsubscribe(gListener)
    /\ gResult' = Settle(gResult, IF currentUser THEN Returned("user")
                                  ELSE Threw(NoUserError))
    /\ gSettles' = gSettles + 1
    /\ gpc' = "settled"
    /\ UNCHANGED <<sfpc, sfEndpoint, sfTimeoutMs, sfTimer, sfAborted,
                   sfResponded, sfResult, sfCalls, sfLog>>
    /\ UNCHANGED <<authvars, tvars, hvars, uivars, opvars, sessvars,
                 startvars>>

\* the error callback of the listener is called
GuwListenerError ==
    /\ gListener = "subscribed"
    /\ gTimer' = ClearGuwTimer(gTimer)
    /\ gListener' = Unsubscribe(gListener)
    /\ gResult' = Settle(gResult, Threw(ListenerError))
    /\ gSettles' = gSettles + 1
    /\ gpc' = "settled"
    /\ UNCHANGED <<sfpc, sfEndpoint, sfTimeoutMs, sfTimer, sfAborted,
                   sfResponded, sfResult, sfCalls, sfLog>>
    /\ UNCHANGED <<authvars, tvars, hvars, uivars, opvars, sessvars,
                 startvars>>

\* the timer of getUserOrWait fires
GuwTimerFires ==
    /\ gTimer = "armed"
    /\ gTimer' = "fired"
    /\ gListener' = UnsubscribeOnTimeout(gListener)
    /\ gResult' = Settle(gResult, Threw(GuwTimeoutError))
    /\ gSettles' = gSettles + 1
    /\ gpc' = "settled"
    /\ UNCHANGED <<sfpc, sfEndpoint, sfTimeoutMs, sfTimer, sfAborted,
                   sfResponded, sfResult, sfCalls, sfLog>>
    /\ UNCHANGED <<authvars, tvars, hvars, uivars, opvars, sessvars,
                 startvars>>

\* getUserOrWait and getIdToken(true) have settled; on success the timer
\* is armed and the fetch issued
SfUserSettles ==
    /\ sfpc = "waitUser"
    /\ gResult # Pending
    /\ IF UserObtained(gResult) /\ idTokenOk
       THEN /\ sfTimeoutMs' = TimeoutFor(sfEndpoint)
            /\ sfTimer' = "armed"
            /\ sfLog' = Append(sfLog, SecureRequest(sfEndpoint))
            /\ sfpc' = "fetching"
            /\ UNCHANGED sfResult
       ELSE /\ sfResult' = SecureFetchCatch(
                              IF gResult.kind = "threw" THEN gResult
                              ELSE Threw(TokenError))
            /\ sfpc' = "done"
            /\ UNCHANGED <<sfTimeoutMs, sfTimer, sfLog>>
    /\ UNCHANGED <<sfEndpoint, sfAborted, sfResponded, sfCalls>>
    /\ UNCHANGED guwvars
    /\ UNCHANGED <<authvars, tvars, hvars, uivars, opvars, sessvars,
                 startvars>>

\* the fetch resolves with a response
SfResponds ==
    /\ sfpc = "fetching"
    /\ ~sfAborted
    /\ \E out \in SfResponses :
          sfResult' = SecureFetchCatch(AfterResponse(out))
    /\ sfTimer' = ClearTimer(sfTimer)
    /\ sfResponded' = TRUE
    /\ sfpc' = "done"
    /\ UNCHANGED <<sfEndpoint, sfTimeoutMs, sfAborted, sfCalls>>
    /\ UNCHANGED <<sfLog, gpc, gTimer, gListener, gSettles, gResult>>
    /\ UNCHANGED <<authvars, tvars, hvars, uivars, opvars, sessvars,
                 startvars>>

\* the fetch rejects on its own: the timer is not cleared
SfNetworkFails ==
    /\ sfpc = "fetching"
    /\ ~sfAborted
    /\ sfResult' = SecureFetchCatch(Threw(NetworkError))
    /\ sfpc' = "done"
    /\ UNCHANGED <<sfEndpoint, sfTimeoutMs, sfTimer, sfAborted, sfResponded,
                   sfCalls>>
    /\ UNCHANGED <<sfLog, gpc, gTimer, gListener, gSettles, gResult>>
    /\ UNCHANGED <<authvars, tvars, hvars, uivars, opvars, sessvars,
                 startvars>>

\* the deadline passes: controller.abort(), which rejects a fetch that is
\* still pending with an AbortError
SfTimerFires ==
    /\ sfTimer = "armed"
    /\ sfTimer' = "fired"
    /\ sfAborted' = TRUE
    /\ IF sfpc = "fetching"
       THEN /\ sfResult' = SecureFetchCatch(Threw(AbortError))
            /\ sfpc' = "done"
       ELSE UNCHANGED <<sfResult, sfpc>>
    /\ UNCHANGED <<sfEndpoint, sfTimeoutMs, sfResponded, sfCalls>>
    /\ UNCHANGED <<sfLog, gpc, gTimer, gListener, gSettles, gResult>>
    /\ UNCHANGED <<authvars, tvars, hvars, uivars, opvars, sessvars,
                 startvars>>

vars ==
    <<currentUser, idTokenOk, tokenSeq, lsFirebaseUser, lsAuthUser,
      tpc, tentry, tquery, ttoken, tlog, tprimary, tfallback, tresult, tcalls,
      hpc, htoken, hfresh, hlog, hfirst, hretry, hresult, hcalls,
      query, loading, error, messages, showFeedback,
      sends, sendSeq, fbOps, slog, alert, promptSeq, promptId, resolved,
      raised,
      variant, clock, lsSession, lsToken, lsUser, mounted, sessionId,
      mountReq, mountLoad, mountData, lpc, scopeIds, scopeWrites, prevIds,
      afterClear, firstNew, logoutDone, logoutLeft, cbpc, fbLoggedOut,
      appVariant, appLoggedIn, routePath, routeShown,
      sfpc, sfEndpoint, sfTimeoutMs, sfTimer, sfAborted, sfResponded,
      sfResult, sfCalls, sfLog, gpc, gTimer, gListener, gSettles, gResult,
      shpc, shEnv, shCounter, shProbeOk, shExit>>

(***************************************************************************)
(* Properties of sendChatQuestion / sendChat (SpecTransport)               *)
(***************************************************************************)
PrimaryRejected ==
    tprimary.kind = "http" /\ tprimary.status \in {401, 403}

\* C1: for a non-empty query one call issues exactly one POST to /chat/ask,
\* first; it issues exactly one POST to /chat/ask/test exactly when the
\* primary response was 401 or 403 and none otherwise, never more than two
\* requests; a result returned after the fallback carries from_fallback: true.
C1_OnePrimaryOneFallback ==
    (tquery # "" /\ tpc # "idle") =>
        /\ Len(tlog) >= 1
        /\ tlog[1].path = "/chat/ask"
        /\ tlog[1].query = tquery
        /\ CountPath(tlog, "/chat/ask") = 1
        /\ CountPath(tlog, "/chat/ask/test") =
              (IF PrimaryRejected THEN 1 ELSE 0)
        /\ Len(tlog) <= 2
        /\ (tpc = "done" /\ PrimaryRejected /\ tresult.kind = "returned") =>
              /\ "from_fallback" \in DOMAIN tresult.value
              /\ tresult.value.from_fallback = TRUE

\* a call answered 401 went to the fallback and returned its answer
C1_Witness ==
    /\ tpc = "done"
    /\ tquery # ""
    /\ tprimary.kind = "http" /\ tprimary.status = 401
    /\ Len(tlog) = 2
    /\ tresult.kind = "returned"

\* C2: sendChatQuestion called with the empty string performs no network
\* call and fails with a ValidationError.
C2_EmptyQueryRejected ==
    (tentry = "sendChatQuestion" /\ tquery = "" /\ tpc # "idle") =>
        /\ tlog = <<>>
        /\ tresult.kind = "threw"
        /\ tresult.error.type = "ValidationError"

\* C3: when the primary POST is rejected with 401/403 and the fallback POST
\* is answered with a non-2xx status too, the call fails; it returns no
\* response marked successful.
C3_RejectedFallbackFails ==
    (/\ tpc = "done"
     /\ PrimaryRejected
     /\ tfallback.kind = "http"
     /\ ~(tfallback.status >= 200 /\ tfallback.status <= 299)) =>
        tresult.kind = "threw"

\* C4: a primary response whose status is non-2xx and neither 401 nor 403
\* makes the call fail with an error carrying the status and the body (the
\* body text whenever it could be read); no response is returned.
C4_BackendErrorCarriesStatusAndBody ==
    (/\ tpc = "done"
     /\ tprimary.kind = "http"
     /\ ~(tprimary.status >= 200 /\ tprimary.status <= 299)
     /\ tprimary.status \notin {401, 403}) =>
        /\ tresult.kind = "threw"
        /\ tresult.error.status = tprimary.status
        /\ tprimary.readable => tresult.error.body = tprimary.text

\* a 500 with a readable body was turned into the error
C4_Witness ==
    /\ tpc = "done"
    /\ tprimary.kind = "http" /\ tprimary.status = 500
    /\ tprimary.readable
    /\ tresult.kind = "threw"
    /\ tresult.error.body = tprimary.text
    /\ Len(tlog) = 1

\* no token can be obtained: no signed-in user and no cached token, or the
\* retrieval throws (getIdToken rejects, or a stored blob is not JSON)
NoTokenObtainable ==
    \/ currentUser /\ ~idTokenOk
    \/ /\ ~currentUser
       /\ \/ lsFirebaseUser \in {"corrupt", "noToken"}
          \/ lsFirebaseUser = "absent"
             /\ lsAuthUser \in {"absent", "corrupt", "noToken"}

\* C5: when no token can be obtained, a call that passed the argument check
\* still issues the POST to /chat/ask, without an Authorization header.
C5_NoTokenStillPosts ==
    (/\ tpc # "idle"
     /\ tresult # Threw(RequiresQueryError)
     /\ NoTokenObtainable) =>
        /\ Len(tlog) >= 1
        /\ tlog[1].path = "/chat/ask"
        /\ ~tlog[1].auth.present

\* the token retrieval threw and the POST is in flight without a header
C5_Witness ==
    /\ tpc = "primary"
    /\ currentUser /\ ~idTokenOk
    /\ Len(tlog) = 1
    /\ ~tlog[1].auth.present

(***************************************************************************)
(* Properties of getChatHistory (SpecHistory)                              *)
(***************************************************************************)
FirstRejected ==
    hfirst.kind = "http" /\ hfirst.status \in {401, 403}

\* the last request of the call was answered 2xx with a JSON body
HistorySucceeded ==
    LET last == IF Len(hlog) = 2 THEN hretry ELSE hfirst
    IN  /\ Len(hlog) >= 1
        /\ last.kind = "http"
        /\ last.status >= 200 /\ last.status <= 299
        /\ last.readable
        /\ last.text # "html"
        /\ ~(Len(hlog) = 1 /\ FirstRejected)

\* C6: getChatHistory never raises: a finished call has returned, and when
\* its requests did not end in a success it returned {success: false,
\* data: []}.
C6_HistoryNeverRaises ==
    hpc = "done" =>
        /\ hresult.kind = "returned"
        /\ ~HistorySucceeded => hresult.value = [success |-> FALSE,
                                                 data |-> <<>>]

\* a rejected first GET and a failed retry ended in the empty result
C6_Witness ==
    /\ hpc = "done"
    /\ FirstRejected
    /\ Len(hlog) = 2
    /\ hretry.kind = "http" /\ hretry.status = 500
    /\ hresult = Returned([success |-> FALSE, data |-> <<>>])

\* C7 as claimed: after a 401/403 on the first GET the call always issues
\* exactly one retry GET.
C7_AlwaysRetries ==
    (hpc \in {"retry", "done"} /\ FirstRejected) => Len(hlog) = 2

\* C7 as amended: after a 401/403 on the first GET the call asks for a token
\* again; when it gets one it issues exactly one retry GET carrying that
\* token and returns the retried payload if the retry succeeds; when it gets
\* none it issues no retry; after any other first response it issues no
\* retry; one call never issues more than two GETs.
C7_RetryOnceWithFreshToken ==
    hpc # "idle" =>
        /\ Len(hlog) <= 2
        /\ (FirstRejected /\ hfresh # NoToken) =>
              /\ Len(hlog) = 2
              /\ hlog[2].auth = [present |-> TRUE, bearer |-> hfresh]
        /\ (FirstRejected /\ hfresh = NoToken) => Len(hlog) = 1
        /\ ~FirstRejected => Len(hlog) = 1
        /\ (hpc = "done" /\ Len(hlog) = 2 /\ HistorySucceeded) =>
              hresult = Returned(ParseJson(hretry.text))

\* a retry with a newly minted token succeeded and its payload was returned
C7_Witness ==
    /\ hpc = "done"
    /\ FirstRejected
    /\ Len(hlog) = 2
    /\ htoken.kind = "live"
    /\ hfresh.kind = "live" /\ hfresh # htoken
    /\ hretry.kind = "http" /\ hretry.status = 200 /\ hretry.text = "hist"
    /\ hresult.kind = "returned"
    /\ hresult.value.success

(***************************************************************************)
(* Properties of the feedback / handoff flow (SpecSurface)                 *)
(***************************************************************************)
\* POSTs to /chat/feedback issued for prompt p
FeedbackPosts(p) ==
    {i \in 1..Len(slog) : slog[i].path = "/chat/feedback" /\ slog[i].prompt = p}

\* POSTs to /tickets/create issued for prompt p
TicketPosts(p) ==
    {i \in 1..Len(slog) : slog[i].path = "/tickets/create"
                          /\ slog[i].prompt = p}

\* C8: resolving a prompt with need_assistance issues exactly one POST to
\* /chat/feedback and, once that POST has succeeded, exactly one POST to
\* /tickets/create after it; when the feedback POST fails (or while it is
\* pending) no POST to /tickets/create is made.
C8_NeedAssistanceFeedbackThenTicket ==
    \A p \in DOMAIN resolved :
        resolved[p].option = "need_assistance" =>
            /\ Cardinality(FeedbackPosts(p)) = 1
            /\ Cardinality(TicketPosts(p)) =
                  (IF resolved[p].feedback = "ok" THEN 1 ELSE 0)
            /\ \A i \in FeedbackPosts(p), j \in TicketPosts(p) : i < j

\* a need_assistance resolution whose feedback POST succeeded has its ticket
\* POST right behind it
C8_Witness ==
    \E p \in DOMAIN resolved :
        /\ resolved[p] = [option |-> "need_assistance", feedback |-> "ok"]
        /\ Cardinality(FeedbackPosts(p)) = 1
        /\ Cardinality(TicketPosts(p)) = 1

\* C9: resolving a prompt with satisfied issues exactly one POST to
\* /chat/feedback and no POST to /tickets/create, whatever the outcome of
\* the feedback POST.
C9_SatisfiedNoTicket ==
    \A p \in DOMAIN resolved :
        resolved[p].option = "satisfied" =>
            /\ Cardinality(FeedbackPosts(p)) = 1
            /\ Cardinality(TicketPosts(p)) = 0

\* a satisfied resolution whose feedback POST succeeded, and nothing more
C9_Witness ==
    \E p \in DOMAIN resolved :
        /\ resolved[p] = [option |-> "satisfied", feedback |-> "ok"]
        /\ Cardinality(FeedbackPosts(p)) = 1
        /\ alert = "thanks"

\* C10 as claimed: every prompt that was shown and has gone got exactly one
\* FeedbackRecord, no prompt got two, and a prompt is off display once an
\* option was chosen.
C10_ExactlyOneRecordPerPrompt ==
    \A p \in 1..promptSeq :
        /\ Cardinality(FeedbackPosts(p)) <= 1
        /\ p # promptId => Cardinality(FeedbackPosts(p)) = 1
        /\ p \in DOMAIN resolved => p # promptId

\* C10 as amended: a prompt gets exactly one FeedbackRecord when an option
\* was chosen on it and none when a send or a newer prompt took it off
\* display first, never two; it is off display once an option was chosen.
C10_OneRecordPerResolvedPrompt ==
    \A p \in 1..promptSeq :
        /\ Cardinality(FeedbackPosts(p)) =
              (IF p \in DOMAIN resolved THEN 1 ELSE 0)
        /\ p \in DOMAIN resolved => p # promptId

\* the first prompt was dismissed by the next send, the second was resolved
C10_Witness ==
    /\ promptSeq = 2
    /\ promptId = 0
    /\ DOMAIN resolved = {2}
    /\ FeedbackPosts(1) = {}
    /\ Cardinality(FeedbackPosts(2)) = 1

(***************************************************************************)
(* Properties of the send path of ChatBox (SpecSurface)                    *)
(***************************************************************************)
\* C11: at most one chat request of the surface is in flight at any time,
\* typed and voice-triggered sends alike.
C11_OneRequestInFlight ==
    Cardinality(sends) <= 1

\* a step in which a send in flight ended without a bot turn: it failed
SendFailedStep ==
    /\ sends' # sends
    /\ sends' \subseteq sends
    /\ messages' = messages

\* a step in which a send in flight ended with its bot turn: it succeeded
SendSucceededStep ==
    /\ sends' # sends
    /\ sends' \subseteq sends
    /\ Len(messages') = Len(messages) + 1
    /\ messages'[Len(messages')].role = "bot"

\* C17: a failed send sets the error banner and leaves the input text as it
\* was; among the steps that end a send, only a successful one empties the
\* input.
C17_FailedSendKeepsInput ==
    [][/\ SendFailedStep => (error' # "null" /\ query' = query)
       /\ (sends' # sends /\ sends' \subseteq sends
           /\ query # "" /\ query' = "") => SendSucceededStep]_vars

\* a typed question whose send failed is still in the input box, under the
\* banner, and can be sent again
C17_Witness ==
    /\ query = "q1"
    /\ error # "null"
    /\ sends = {}
    /\ ~loading
    /\ Len(messages) = 1
    /\ messages[1] = UserTurn("q1")

\* the prompt on display is taken off or replaced in this step
PromptLeaves ==
    promptId # 0 /\ promptId' # promptId

\* the step issues the feedback POST of the prompt on display: a button
ByButton ==
    /\ Len(slog') = Len(slog) + 1
    /\ slog'[Len(slog')].path = "/chat/feedback"
    /\ slog'[Len(slog')].prompt = promptId

\* the step puts a newer prompt on display
ByNewerPrompt ==
    promptSeq' = promptSeq + 1 /\ promptId' = promptSeq'

\* the step starts a send: a question was submitted
BySend ==
    sendSeq' = sendSeq + 1

\* C19 as claimed: the prompt leaves the display only through a feedback
\* button or a newer prompt.
C19_OnlyButtonOrNewerPrompt ==
    [][PromptLeaves => (ByButton \/ ByNewerPrompt)]_vars

\* C19 as amended: the prompt leaves the display only through a feedback
\* button, a newer prompt, or the submission of a new question, which
\* clears it before the transport call whatever the response will carry;
\* a response without feedback_prompt, a failed send and a failed feedback
\* or ticket POST leave it alone.
C19_ButtonNewerPromptOrSend ==
    [][PromptLeaves => (ByButton \/ ByNewerPrompt \/ BySend)]_vars

\* while a send was in flight a prompt came up, and the answer to a second
\* send, carrying no feedback_prompt, left it on display
C19_Witness ==
    /\ promptId # 0
    /\ showFeedback # "null"
    /\ sends = {}
    /\ sendSeq = 2
    /\ Len(messages) = 4
    /\ messages[4].role = "bot"
    /\ messages[4].chatId = "c1"

\* C20: the prompt of a feedback resolution is off display while its POSTs
\* are in flight, and a prompt comes (back) on display only in a step that
\* appends the bot turn of a chat response: no settled feedback or ticket
\* POST, failed or not, restores it.
C20_FailureNeverRestoresPrompt ==
    /\ [](\A op \in fbOps : op.prompt # promptId)
    /\ [][(showFeedback = "null" /\ showFeedback' # "null") =>
             (/\ Len(messages') = Len(messages) + 1
              /\ messages'[Len(messages')].role = "bot"
              /\ promptSeq' = promptSeq + 1)]_vars

\* a feedback POST failed and the prompt is still absent
C20_Witness ==
    /\ showFeedback = "null"
    /\ alert = "failed"
    /\ fbOps = {}
    /\ \E p \in DOMAIN resolved : resolved[p].feedback = "failed"

\* C21 as claimed: the FeedbackRecord and the Ticket of one resolution
\* carry the chat_id of the chat response that raised the prompt.
C21_ChatIdOfRaisingResponse ==
    \A i \in DOMAIN slog :
        slog[i].prompt \in DOMAIN raised
        /\ slog[i].chat_id = raised[slog[i].prompt]

\* C21 as amended: the FeedbackRecord and the Ticket of one resolution
\* carry the same chat_id, which is the chat_id of the response that raised
\* the prompt when that response has one and the placeholder "latest" when
\* it has none.
C21_ChatIdOrPlaceholder ==
    \A i \in DOMAIN slog :
        /\ slog[i].prompt \in DOMAIN raised
        /\ slog[i].chat_id = IF raised[slog[i].prompt] = "undefined"
                             THEN "latest"
                             ELSE raised[slog[i].prompt]
        /\ \A j \in DOMAIN slog :
              slog[j].prompt = slog[i].prompt
                  => slog[j].chat_id = slog[i].chat_id

\* a need_assistance resolution whose two POSTs carry the chat_id of the
\* response that raised the prompt, after a second send was answered
C21_Witness ==
    /\ sendSeq = 2
    /\ \E i, j \in DOMAIN slog :
          /\ i < j
          /\ slog[i].path = "/chat/feedback"
          /\ slog[j].path = "/tickets/create"
          /\ slog[i].prompt = slog[j].prompt
          /\ slog[i].chat_id = "c2"
          /\ slog[j].chat_id = "c2"
          /\ raised[slog[i].prompt] = "c2"

\* C22: no request with an empty query reaches the network, from a typed
\* or voice-triggered send of the chat surface or from a call of sendChat.
C22_NoEmptyQueryOnNetwork ==
    /\ \A s \in sends : s.question # ""
    /\ tentry = "sendChat" => \A i \in DOMAIN tlog : tlog[i].query # ""

\* C24: the bot turn appended when a send is answered comes right after
\* the user turn of that send.
C24_BotTurnFollowsItsUserTurn ==
    [][\A s \in sends :
          (s \notin sends' /\ Len(messages') = Len(messages) + 1)
              => Len(messages') = s.turn + 1]_vars

\* C26: a send that settles, resolved or rejected, leaves loading false,
\* and loading is never true when no send is in flight.
C26_LoadingResetOnSettle ==
    /\ [](sends = {} => ~loading)
    /\ [][(sends' # sends /\ sends' \subseteq sends) => ~loading']_vars

\* a send failed and the surface accepts input again
C26_Witness ==
    /\ sendSeq = 1
    /\ sends = {}
    /\ ~loading
    /\ error # "null"
    /\ Len(messages) = 1

(***************************************************************************)
(* Properties of the session id, the history load and logout (SpecSession) *)
(***************************************************************************)
\* C12: within one storage scope every evaluation of the session accessor,
\* remounts included, yields the same id, and the id is written to storage
\* at most once.
C12_SessionIdStable ==
    /\ Cardinality(scopeIds) <= 1
    /\ scopeWrites <= 1

\* C13: the first session id handed out after storage was cleared differs
\* from every id handed out before the clear.
C13_FreshIdAfterClear ==
    firstNew # NoId => firstNew \notin prevIds

\* C14: a completed logout leaves neither the session id key nor the
\* token and user keys in storage.
C14_LogoutClearsBothKeys ==
    logoutDone => logoutLeft = {}

\* the turns of a newest-first history payload in display order: oldest
\* item first, each question before its answer
OldestFirst(data) ==
    FlatMapTurns(Reverse(data))

\* C15: when the mount effect puts a history payload on display, the turns
\* are shown oldest first, each user question before its bot answer.
C15_HistoryOldestFirst ==
    mountLoad = "shown" => messages = OldestFirst(mountData)

\* C18: the history request issued on mount carries the session id of the
\* surface that issued it as its filter.
C18_HistoryFilteredBySession ==
    mountReq # <<>> => mountReq[1].session_id = sessionId

\* C25: from the completion of logout() to the next sign-in the token and
\* user keys are absent from storage.
C25_KeysAbsentAfterLogout ==
    fbLoggedOut => (~lsToken /\ ~lsUser)

(***************************************************************************)
(* Properties of the history load racing with sends (SpecMountRace)        *)
(***************************************************************************)
\* the turns on display before the step are all on display after it, in
\* the same order and next to each other
TurnsKept ==
    \E k \in 0..Len(messages') :
        \A i \in 1..Len(messages) :
            /\ k + i <= Len(messages')
            /\ messages'[k + i] = messages[i]

\* C23: applying the history response of the mount effect loses none of
\* the turns that sends have appended meanwhile.
C23_HistoryLoadKeepsSentTurns ==
    [][(mountLoad = "fetching" /\ mountLoad' # "fetching" /\ sendSeq > 0)
          => TurnsKept]_vars

(***************************************************************************)
(* Properties of secureFetch (SpecSecureFetch)                             *)
(***************************************************************************)
\* C16: when the deadline passes while the fetch is pending, the request
\* is aborted and the call fails with the timeout error, which is not the
\* error of a non-2xx response; when the response arrives first the timer
\* is cancelled and the request is never aborted afterwards.
C16_DeadlineAbortsElseTimerCleared ==
    /\ [](/\ sfResponded => (sfTimer = "cleared" /\ ~sfAborted)
          /\ (sfResult.kind = "threw" /\ sfResult.error = SfTimeoutError)
                => (sfAborted /\ sfTimer = "fired" /\ ~sfResponded)
          /\ (sfResult.kind = "threw"
              /\ sfResult.error.type = SfBackendError(0).type)
                => (sfResponded /\ ~IsOk(sfResult.error.status))
          /\ \A st \in Statuses : SfBackendError(st) # SfTimeoutError)
    /\ [][(sfpc = "fetching" /\ sfTimer = "armed" /\ sfTimer' = "fired")
             => (sfAborted' /\ sfResult' = Threw(SfTimeoutError))]_vars

\* the 60 s deadline of a chat/ask call passed before any response
C16_Witness ==
    /\ sfpc = "done"
    /\ sfEndpoint = "chat/ask"
    /\ sfTimeoutMs = ChatAskTimeoutMs
    /\ sfTimer = "fired"
    /\ sfAborted
    /\ sfResult = Threw(SfTimeoutError)

\* C27: secureFetch issues a request only after getUserOrWait gave it a
\* signed-in user; when getUserOrWait rejects (no user signed in, listener
\* error, wait expired) the call fails with that error and has issued no
\* request and armed no request timer.
C27_NoRequestWithoutUser ==
    /\ (sfLog # <<>> \/ sfpc = "fetching" \/ sfTimer # "unset")
          => gResult = Returned("user")
    /\ (gResult.kind = "threw" /\ sfpc = "done")
          => (sfLog = <<>> /\ sfResult = gResult)

\* no user was detected within the wait: the call failed without a request
C27_Witness ==
    /\ sfpc = "done"
    /\ gResult = Threw(GuwTimeoutError)
    /\ sfResult = Threw(GuwTimeoutError)
    /\ sfLog = <<>>
    /\ sfTimer = "unset"

\* C30: getUserOrWait settles exactly once, and once it has settled its
\* timer is not pending and its listener is not subscribed, whichever of
\* the timer and the listener came first.
C30_SettlesOnceAndReleases ==
    /\ gSettles <= 1
    /\ gpc = "settled" <=> gSettles = 1
    /\ gpc = "settled" <=> gResult # Pending
    /\ gpc = "settled" => (gTimer # "armed" /\ gListener # "subscribed")

\* the wait expired before any auth callback: the listener is released
C30_Witness ==
    /\ gpc = "settled"
    /\ gTimer = "fired"
    /\ gListener = "unsubscribed"
    /\ gSettles = 1
    /\ gResult = Threw(GuwTimeoutError)

(***************************************************************************)
(* Properties of the router (SpecRoutes)                                   *)
(***************************************************************************)
\* C28: DashboardLayout and ChatPage are on display only while a token is
\* in storage.
C28_ProtectedOnlyWithToken ==
    routeShown \in {"DashboardLayout", "ChatPage"} => lsToken

(***************************************************************************)
(* Properties of start_backend.sh (SpecStartup)                            *)
(***************************************************************************)
\* C29: the script ends its wait phase: it launches the backend only with
\* all five Postgres variables set and after a successful probe, exits
\* with status 1 otherwise, and never makes more than 30 failed probes.
C29_WaitPhaseTerminates ==
    /\ [](/\ shCounter <= MAX_RETRIES
          /\ shpc = "launched" =>
                (REQUIRED_VARS \subseteq shEnv /\ shProbeOk /\ shExit = -1)
          /\ shpc = "exited" =>
                (shExit = 1 /\ ~shProbeOk
                 /\ (shCounter = MAX_RETRIES \/ ~(REQUIRED_VARS \subseteq shEnv)))
          /\ shpc \in {"env", "wait"} => shExit = -1)
    /\ <>(shpc \in {"launched", "exited"})

\* the database never answered: the script gave up after 30 probes
C29_Witness ==
    /\ shpc = "exited"
    /\ shExit = 1
    /\ shCounter = MAX_RETRIES
    /\ REQUIRED_VARS \subseteq shEnv

TransportInit ==
    /\ InitAuth
    /\ InitTransport
    /\ InitHistory
    /\ InitSurface
    /\ InitSession("ChatBox.tsx")
    /\ InitSecureFetch
    /\ InitStartup

TransportNext ==
    \/ SendChatQuestionCall
    \/ SendChatCall
    \/ PrimaryResponds
    \/ FallbackResponds
    \/ TransportSettled

SpecTransport ==
    TransportInit /\ [][TransportNext]_vars

HistoryNext ==
    \/ GetChatHistoryCall
    \/ HistoryFirstResponds
    \/ HistoryRetryResponds
    \/ HistorySettled
    \/ (AuthChange /\ UNCHANGED <<tvars, hvars, uivars, opvars, sessvars, sfvars, startvars>>)

SpecHistory ==
    TransportInit /\ [][HistoryNext]_vars

SurfaceInit ==
    /\ currentUser = FALSE
    /\ idTokenOk = TRUE
    /\ tokenSeq = 0
    /\ lsFirebaseUser = "absent"
    /\ lsAuthUser = "absent"
    /\ InitTransport
    /\ InitHistory
    /\ InitSurface
    /\ InitSession("ChatBox.tsx")
    /\ InitSecureFetch
    /\ InitStartup

SurfaceNext ==
    \/ (SetQuery /\ UNCHANGED <<authvars, tvars, hvars, sessvars, sfvars, startvars>>)
    \/ (HandleSendTyped /\ UNCHANGED <<authvars, tvars, hvars, sessvars, sfvars, startvars>>)
    \/ (HandleSendVoice /\ UNCHANGED <<authvars, tvars, hvars, sessvars, sfvars, startvars>>)
    \/ (SendResolves /\ UNCHANGED <<authvars, tvars, hvars, sessvars, sfvars, startvars>>)
    \/ (SendRejects /\ UNCHANGED <<authvars, tvars, hvars, sessvars, sfvars, startvars>>)
    \/ (HandleFeedback /\ UNCHANGED <<authvars, tvars, hvars, sessvars, sfvars, startvars>>)
    \/ (FeedbackSettles /\ UNCHANGED <<authvars, tvars, hvars, sessvars, sfvars, startvars>>)
    \/ (TicketSettles /\ UNCHANGED <<authvars, tvars, hvars, sessvars, sfvars, startvars>>)

SpecSurface ==
    SurfaceInit /\ [][SurfaceNext]_vars

SessionInit ==
    /\ currentUser = FALSE
    /\ idTokenOk = TRUE
    /\ tokenSeq = 0
    /\ lsFirebaseUser = "absent"
    /\ lsAuthUser = "absent"
    /\ InitTransport
    /\ InitHistory
    /\ InitSurface
    /\ \E v \in Variants : InitSession(v)
    /\ InitSecureFetch
    /\ InitStartup

SessionNext ==
    \/ Tick
    \/ Mount
    \/ MountHistoryResponds
    \/ Unmount
    \/ ClearStorage
    \/ SignIn
    \/ HandleLogout
    \/ FirebaseLogoutCall
    \/ SignOutResolves
    \/ SignOutRejects
    \/ AuthCallbackStores
    \/ AuthCallbackRefreshFails

SpecSession ==
    SessionInit /\ [][SessionNext]_vars

\* the surface's handlers run on a mounted component
MountRaceNext ==
    \/ Mount
    \/ MountHistoryResponds
    \/ (mounted /\ SetQuery
           /\ UNCHANGED <<authvars, tvars, hvars, sessvars, sfvars, startvars>>)
    \/ (mounted /\ HandleSendTyped
           /\ UNCHANGED <<authvars, tvars, hvars, sessvars, sfvars, startvars>>)
    \/ (mounted /\ HandleSendVoice
           /\ UNCHANGED <<authvars, tvars, hvars, sessvars, sfvars, startvars>>)
    \/ (mounted /\ SendResolves
           /\ UNCHANGED <<authvars, tvars, hvars, sessvars, sfvars, startvars>>)
    \/ (mounted /\ SendRejects
           /\ UNCHANGED <<authvars, tvars, hvars, sessvars, sfvars, startvars>>)

SpecMountRace ==
    SessionInit /\ [][MountRaceNext]_vars

RoutesInit ==
    /\ currentUser = FALSE
    /\ idTokenOk = TRUE
    /\ tokenSeq = 0
    /\ lsFirebaseUser = "absent"
    /\ lsAuthUser = "absent"
    /\ InitTransport
    /\ InitHistory
    /\ InitSurface
    /\ \E v \in AppVariants : InitSessionWith("part_008", v)
    /\ InitSecureFetch
    /\ InitStartup

RoutesNext ==
    \/ AppLoad
    \/ GoogleCallbackEffect
    \/ LayoutLogout
    \/ SignIn
    \/ AuthCallbackStores
    \/ AuthCallbackRefreshFails
    \/ FirebaseLogoutCall
    \/ SignOutResolves
    \/ SignOutRejects

SpecRoutes ==
    RoutesInit /\ [][RoutesNext]_vars

StartupInit ==
    /\ currentUser = FALSE
    /\ idTokenOk = TRUE
    /\ tokenSeq = 0
    /\ lsFirebaseUser = "absent"
    /\ lsAuthUser = "absent"
    /\ InitTransport
    /\ InitHistory
    /\ InitSurface
    /\ InitSession("part_008")
    /\ InitSecureFetch
    /\ \E env \in SUBSET REQUIRED_VARS : InitStartupWith(env)

StartupNext ==
    \/ CheckEnv
    \/ ProbeFails
    \/ ProbeSucceeds

\* the shell runs the script on: a step that stays possible is taken
SpecStartup ==
    StartupInit /\ [][StartupNext]_vars /\ WF_vars(StartupNext)

SecureFetchInit ==
    /\ currentUser \in BOOLEAN
    /\ idTokenOk \in BOOLEAN
    /\ tokenSeq = 0
    /\ lsFirebaseUser = "absent"
    /\ lsAuthUser = "absent"
    /\ InitTransport
    /\ InitHistory
    /\ InitSurface
    /\ InitSession("part_008")
    /\ InitSecureFetch
    /\ InitStartup

SecureFetchNext ==
    \/ SecureFetchCall
    \/ GuwAuthCallback
    \/ GuwListenerError
    \/ GuwTimerFires
    \/ SfUserSettles
    \/ SfResponds
    \/ SfNetworkFails
    \/ SfTimerFires
    \/ (AuthChange /\ UNCHANGED <<tvars, hvars, uivars, opvars, sessvars, sfvars, startvars>>)

SpecSecureFetch ==
    SecureFetchInit /\ [][SecureFetchNext]_vars

====
